---- MODULE Spec2Model ----
(***************************************************************************)
(* Smart_Traffic_Signal: the two signal schedulers of the repository.      *)
(*                                                                         *)
(*   prog = "fixed"    traffic_signal_cycle  (ambulance_detection/         *)
(*                     detect_ambulance.py): fixed 10 s phases, emergency  *)
(*                     preemption and a per-approach cooldown.             *)
(*   prog = "adaptive" TrafficLightSystem.process_intersection             *)
(*                     (vehicle_detection/light.py): green time computed   *)
(*                     from a vehicle count, max_cycles passes.            *)
(*                                                                         *)
(* Python indices are kept 0-based: At(s, k) is s[k] of the source.        *)
(* The display calls (cv2.imshow, cv2.waitKey) are total; the perception   *)
(* calls (cv2.imread, process_image, count_cars) may fail.                 *)
(***************************************************************************)
EXTENDS Integers, Sequences, FiniteSets, TLC

VARIABLES
    prog,                   \* which program runs: "fixed" or "adaptive"
    pc,                     \* position of the program
    i,                      \* loop index (enumerate index / range(4) index)
    countdown,              \* values the running `for remaining_time in range(..)` has still to yield
    ambulance_cooldown,     \* module global, detect_ambulance.py:8
    ambulance_detected,     \* local flag, detect_ambulance.py:132
    signal,                 \* what the perception calls still to be made in this sweep yield
    display,                \* the frame last shown in the window
    window,                 \* whether an OpenCV window exists
    timers,                 \* light.py: timers dict of process_intersection
    cycle,                  \* light.py: `cycle` of range(max_cycles)
    config,                 \* light.py: self.config, the TrafficConfig of the system
    empty_cycles,           \* history: outer cycles completed in a row without any phase
    since_green,            \* history: outer cycles completed since the approach last had a green phase
    video,                  \* detection.py: accident confidence (percent) of each frame of the video
    frame_no,               \* detection.py: frames cap.read() has delivered
    accident_detected,      \* detection.py: local flag of main, line 97
    cap_open,               \* detection.py: the capture is open and not yet released
    raised,                 \* history: frame numbers at which handle_emergency_call was entered
    calls,                  \* history: recipients make_phone_call was asked to call
    calc,                   \* calculate_timer called on its own: two counts and their timers
    sweeps,                 \* outer cycles of traffic_signal_cycle begun, counted up to MaxActiveCycles
    \* ---- history variables (observations only, never read by the actions' guards)
    phase,                  \* the phase running or last run: kind, active approach, index, duration, done
    phase_log,              \* remaining_time of the tick events of that phase, in order
    cycle_phases,           \* phases started in the current outer cycle: <<kind, approach>>
    sensed,                 \* approaches whose image was read in the current sweep
    failed,                 \* history: approaches whose perception failed in the current sweep
    first_reporter,         \* lowest index of a non-suppressed approach reporting an ambulance
                            \* in the current sweep; Len(directions) when there is none
    cooldown_at_cycle_start,\* ambulance_cooldown as the current outer cycle found it
    ticks_since_trigger,    \* cooldown updates applied to an approach since its last trigger
    total_phases            \* adaptive: green phases completed in the run

vars == <<prog, pc, i, countdown, ambulance_cooldown, ambulance_detected, signal,
          display, window, timers, cycle, sweeps, phase, phase_log, cycle_phases,
          sensed, failed, first_reporter, cooldown_at_cycle_start, ticks_since_trigger, total_phases,
          config, calc, empty_cycles, since_green,
          video, frame_no, accident_detected, cap_open, raised, calls>>

(***************************************************************************)
(* Program constants                                                       *)
(***************************************************************************)
Dirs == {"North", "South", "East", "West"}

directions == <<"East", "South", "West", "North">>
signal_duration == 10
cooldown_duration == 30

order == <<"North", "East", "South", "West">>
images_order == <<"North", "East", "South", "West">>
min_green_time == 10
max_green_time == 30
cars_per_second == 5
max_cycles == 5

\* light.py lines 16-26: TrafficConfig() with its defaults
DefaultConfig ==
    [min_green_time |-> min_green_time, max_green_time |-> max_green_time,
     cars_per_second |-> cars_per_second, max_cycles |-> max_cycles]

(***************************************************************************)
(* Bounds of the model                                                     *)
(***************************************************************************)
\* Outer cycles of traffic_signal_cycle during which the perception calls
\* may yield anything; in later cycles every approach is read as clear.
MaxActiveCycles == 4
\* Largest vehicle count count_cars yields.
MaxCars == 6
\* calculate_timer on its own: largest vehicle count, largest green time and
\* largest cars_per_second of the configurations tried besides the default.
MaxCount == 13
MaxTime == 3
MaxRate == 2
\* process_intersection under any configuration: largest max_cycles tried.
MaxCfgCycles == 1
\* Longest video of the accident loop, in frames.
MaxFrames == 4

(***************************************************************************)
(* Helpers                                                                 *)
(***************************************************************************)
At(s, k) == s[k + 1]

Max2(a, b) == IF a >= b THEN a ELSE b
Min2(a, b) == IF a <= b THEN a ELSE b

\* range(start, stop, -1) as the sequence of values it yields
RangeDown(start, stop) ==
    [n \in 1..(IF start > stop THEN start - stop ELSE 0) |-> start - n + 1]

Outcomes == {"ambulance", "clear", "unreadable", "error"}
NoSignal == [d \in Dirs |-> "none"]

Light(color, status, timer) == [color |-> color, status |-> status, timer |-> timer]
NoFrame == [d \in Dirs |-> Light("none", "", {})]
NoPhase == [kind |-> "none", active |-> "none", index |-> 0, duration |-> 0, done |-> FALSE]
NeverTriggered == cooldown_duration + 1
NoCalc == [counts |-> <<>>, timers |-> <<>>]

(***************************************************************************)
(* traffic_signal_cycle: pure parts                                        *)
(***************************************************************************)
\* mutant: the update takes two seconds off per outer cycle
tick_cooldown_by_two(cd) ==
    [d \in Dirs |-> IF cd[d] > 0 THEN Max2(0, cd[d] - 2) ELSE cd[d]]

\* mutant: the update takes off one second per rendered second of a phase
tick_cooldown_per_second(cd) ==
    [d \in Dirs |-> IF cd[d] > 0 THEN Max2(0, cd[d] - (signal_duration + 1)) ELSE cd[d]]

\* mutant: the update has neither the `> 0` test nor the max(0, ..)
tick_cooldown_unguarded(cd) == [d \in Dirs |-> cd[d] - 1]

\* mutant: the update is missing, a cooldown never runs down
tick_cooldown_never(cd) == cd

\* lines 136-139: the cooldown update at the start of an outer cycle
tick_cooldown(cd) ==
    [d \in Dirs |-> IF cd[d] > 0 THEN Max2(0, cd[d] - 1) ELSE cd[d]]

\* mutant: the sweep has no cooldown check
sweep_skips_never(cd, d) == FALSE

\* line 146: `if ambulance_cooldown[direction] > 0: continue` of the sweep
sweep_skips(cd, d) == cd[d] > 0

\* mutant: the normal cycle has no cooldown check
normal_skips_never(cd, d) == FALSE

\* line 197: `if ambulance_cooldown[direction] > 0: continue` of the normal cycle
normal_skips(cd, d) == cd[d] > 0

\* line 63: process_image returns len(detections) > 0
process_image(outcome) == outcome = "ambulance"

\* mutant: the cooldown is set to the length of a signal
trigger_signal_duration(cd, d) == [cd EXCEPT ![d] = signal_duration]

\* mutant: the cooldown is set to twice its length
trigger_double(cd, d) == [cd EXCEPT ![d] = 2 * cooldown_duration]

\* line 159: ambulance_cooldown[direction] = cooldown_duration
trigger(cd, d) == [cd EXCEPT ![d] = cooldown_duration]

\* mutant: the countdown stops at 1
normal_range_to_one == RangeDown(signal_duration, 0)

\* line 162 and line 202: range(signal_duration, -1, -1)
emergency_range == RangeDown(signal_duration, -1)

normal_range == RangeDown(signal_duration, -1)

\* mutant: the next approach is drawn green too
emergency_light_next_green(d, idx, remaining_time) ==
    IF d = At(directions, idx)
        THEN Light("green", "EMERGENCY GREEN", {remaining_time})
    ELSE IF d = At(directions, (idx + 1) % 4)
        THEN Light("green", "NEXT", {remaining_time})
    ELSE Light("red", "STOP", {})

\* mutant: the next approach is drawn yellow, as in the normal frame
emergency_light_next_yellow(d, idx, remaining_time) ==
    IF d = At(directions, idx)
        THEN Light("green", "EMERGENCY GREEN", {remaining_time})
    ELSE IF d = At(directions, (idx + 1) % 4)
        THEN Light("yellow", "NEXT", {remaining_time})
    ELSE Light("red", "STOP", {})

\* lines 165-179: colour, status and timer of light d in an emergency frame
emergency_light(d, idx, remaining_time) ==
    IF d = At(directions, idx)
        THEN Light("green", "EMERGENCY GREEN", {remaining_time})
    ELSE IF d = At(directions, (idx + 1) % 4)
        THEN Light("red", "NEXT", {remaining_time})
    ELSE Light("red", "STOP", {})

\* mutant: the next approach is drawn red, as in the emergency frame
normal_light_next_red(d, idx, remaining_time) ==
    IF d = At(directions, idx)
        THEN Light("green", "GO", {remaining_time})
    ELSE IF d = At(directions, (idx + 1) % 4)
        THEN Light("red", "NEXT", {remaining_time})
    ELSE Light("red", "STOP", {})

\* lines 207-221: colour, status and timer of light d in a normal frame
normal_light(d, idx, remaining_time) ==
    IF d = At(directions, idx)
        THEN Light("green", "GO", {remaining_time})
    ELSE IF d = At(directions, (idx + 1) % 4)
        THEN Light("yellow", "NEXT", {remaining_time})
    ELSE Light("red", "STOP", {})

\* lines 163-183 and 203-225: the frame handed to cv2.imshow
emergency_frame(idx, remaining_time) ==
    [d \in Dirs |-> emergency_light(d, idx, remaining_time)]
normal_frame(idx, remaining_time) ==
    [d \in Dirs |-> normal_light(d, idx, remaining_time)]

\* mutant: no `break`, the sweep goes on with the next approach
emergency_exit_continue(idx) ==
    [pc |-> IF idx + 1 < Len(directions) THEN "sweep" ELSE "after_sweep", i |-> idx + 1]

\* line 185: `break` leaves the sweep after the emergency countdown
emergency_exit(idx) == [pc |-> "after_sweep", i |-> idx]

\* mutant: the normal cycle runs whatever the sweep found
run_normal_always(detected) == TRUE

\* line 190: `if not ambulance_detected:`
run_normal(detected) == ~detected

(***************************************************************************)
(* process_intersection: pure parts                                        *)
(***************************************************************************)
CountResults ==
    [kind : {"ok"}, n : 0..MaxCars] \cup [kind : {"missing", "error"}, n : {0}]

\* light.py lines 39-63: count_cars yields the count, 0 on a missing image or an error
count_cars(result) == IF result.kind = "ok" THEN result.n ELSE 0

\* mutant: no floor at min_green_time
calculate_timer_no_floor(car_count) ==
    Min2(car_count * config.cars_per_second, config.max_green_time)

\* light.py lines 65-70
calculate_timer(car_count) ==
    Min2(Max2(config.min_green_time, car_count * config.cars_per_second),
         config.max_green_time)

\* light.py line 156: range(green_time, 0, -1)
green_range(green_time) == RangeDown(green_time, 0)

\* light.py lines 94-102: colour and text of light `direction` in draw_traffic_ui
adaptive_light(direction, active, next_adjacent, green_remaining, red_remaining) ==
    IF direction = active
        THEN Light("green", "", {green_remaining})
    ELSE IF direction = next_adjacent
        THEN Light("yellow", "Wait", {red_remaining})
    ELSE Light("red", "RED", {})

\* light.py lines 90-121 with the call of line 158
draw_traffic_ui(active, next_adjacent, green_remaining, red_remaining) ==
    [d \in Dirs |-> adaptive_light(d, active, next_adjacent, green_remaining, red_remaining)]

\* detection.py: the state of the accident loop
accident_vars == <<video, frame_no, accident_detected, cap_open, raised, calls>>
\* the accident loop has not been started
NoAccidentRun ==
    /\ video = <<>>
    /\ frame_no = 0
    /\ accident_detected = FALSE
    /\ cap_open = FALSE
    /\ raised = <<>>
    /\ calls = <<>>

(***************************************************************************)
(* Initial state: the module is loaded and the chosen program has reached  *)
(* its loop (detect_ambulance.py:128 after the window is created, or       *)
(* light.py:131).                                                          *)
(***************************************************************************)
Init ==
    /\ prog \in {"fixed", "adaptive"}
    /\ pc = IF prog = "fixed" THEN "cycle_start" ELSE "count"
    /\ i = 0
    /\ countdown = <<>>
    /\ ambulance_cooldown = [d \in Dirs |-> 0]
    /\ ambulance_detected = FALSE
    /\ signal = NoSignal
    /\ display = NoFrame
    /\ window = (prog = "fixed")
    /\ timers = [d \in {} |-> 0]
    /\ cycle = 0
    /\ sweeps = 0
    /\ phase = NoPhase
    /\ phase_log = <<>>
    /\ cycle_phases = <<>>
    /\ sensed = {}
    /\ failed = {}
    /\ first_reporter = Len(directions)
    /\ cooldown_at_cycle_start = [d \in Dirs |-> 0]
    /\ ticks_since_trigger = [d \in Dirs |-> NeverTriggered]
    /\ total_phases = 0
    /\ empty_cycles = 0
    /\ since_green = [d \in Dirs |-> 0]
    /\ NoAccidentRun
    /\ config = DefaultConfig
    /\ calc = NoCalc

\* variables no action of the two schedulers writes
static_vars == <<config, calc, since_green, accident_vars>>
adaptive_vars == <<timers, cycle, total_phases, static_vars>>
cooldown_hist == <<cooldown_at_cycle_start, ticks_since_trigger>>

(***************************************************************************)
(* traffic_signal_cycle: actions                                           *)
(***************************************************************************)
FirstReporter(cd, s) ==
    LET R == {k \in 0..(Len(directions) - 1) :
                 cd[At(directions, k)] = 0 /\ s[At(directions, k)] = "ambulance"}
    IN  IF R = {} THEN Len(directions) ELSE CHOOSE k \in R : \A m \in R : k <= m

\* lines 129-139: top of `while True`, flag reset and cooldown update
CycleStart ==
    /\ prog = "fixed" /\ pc = "cycle_start"
    /\ \E s \in [Dirs -> Outcomes] :
          /\ sweeps >= MaxActiveCycles => s = [d \in Dirs |-> "clear"]
          /\ signal' = s
          /\ first_reporter' = FirstReporter(tick_cooldown(ambulance_cooldown), s)
    /\ sweeps' = IF sweeps < MaxActiveCycles THEN sweeps + 1 ELSE sweeps
    /\ ambulance_detected' = FALSE
    /\ ambulance_cooldown' = tick_cooldown(ambulance_cooldown)
    /\ cooldown_at_cycle_start' = ambulance_cooldown
    /\ ticks_since_trigger' =
          [d \in Dirs |-> IF ticks_since_trigger[d] < cooldown_duration
                          THEN ticks_since_trigger[d] + 1
                          ELSE ticks_since_trigger[d]]
    /\ i' = 0
    /\ pc' = "sweep"
    /\ sensed' = {}
    /\ failed' = {}
    /\ cycle_phases' = <<>>
    /\ UNCHANGED <<prog, countdown, display, window, phase, phase_log, adaptive_vars, empty_cycles>>

\* the `for` of line 142 moves on to the next approach, or ends
SweepAdvance ==
    /\ i' = i + 1
    /\ pc' = IF i + 1 < Len(directions) THEN "sweep" ELSE "after_sweep"
    /\ signal' = [signal EXCEPT ![At(directions, i)] = "none"]
    /\ UNCHANGED <<prog, countdown, ambulance_cooldown, ambulance_detected, display,
                   window, phase, phase_log, cycle_phases, first_reporter,
                   cooldown_hist, sweeps, adaptive_vars, empty_cycles>>

\* lines 146-148: the approach is in cooldown
SweepSkip ==
    /\ prog = "fixed" /\ pc = "sweep"
    /\ sweep_skips(ambulance_cooldown, At(directions, i))
    /\ UNCHANGED <<sensed, failed>>
    /\ SweepAdvance

\* lines 150-153: cv2.imread yields None
SweepUnreadable ==
    /\ prog = "fixed" /\ pc = "sweep"
    /\ ~sweep_skips(ambulance_cooldown, At(directions, i))
    /\ signal[At(directions, i)] = "unreadable"
    /\ sensed' = sensed \cup {At(directions, i)}
    /\ failed' = failed \cup {At(directions, i)}
    /\ SweepAdvance

\* mutant: the `try` is around the whole loop, an error ends the sweep
SweepError_ends_sweep ==
    /\ prog = "fixed" /\ pc = "sweep"
    /\ ~sweep_skips(ambulance_cooldown, At(directions, i))
    /\ signal[At(directions, i)] = "error"
    /\ sensed' = sensed \cup {At(directions, i)}
    /\ failed' = failed \cup {At(directions, i)}
    /\ i' = i + 1
    /\ pc' = "after_sweep"
    /\ signal' = [signal EXCEPT ![At(directions, i)] = "none"]
    /\ UNCHANGED <<prog, countdown, ambulance_cooldown, ambulance_detected, display,
                   window, phase, phase_log, cycle_phases, first_reporter,
                   cooldown_hist, sweeps, adaptive_vars, empty_cycles>>

\* lines 156, 187-188: process_image raises, the exception is caught and logged
SweepError ==
    /\ prog = "fixed" /\ pc = "sweep"
    /\ ~sweep_skips(ambulance_cooldown, At(directions, i))
    /\ signal[At(directions, i)] = "error"
    /\ sensed' = sensed \cup {At(directions, i)}
    /\ failed' = failed \cup {At(directions, i)}
    /\ SweepAdvance

\* line 156: process_image yields False
SweepClear ==
    /\ prog = "fixed" /\ pc = "sweep"
    /\ ~sweep_skips(ambulance_cooldown, At(directions, i))
    /\ signal[At(directions, i)] = "clear"
    /\ ~process_image(signal[At(directions, i)])
    /\ sensed' = sensed \cup {At(directions, i)}
    /\ UNCHANGED failed
    /\ SweepAdvance

\* lines 156-162: process_image yields True; flag, cooldown, start of the countdown
SweepAmbulance ==
    /\ prog = "fixed" /\ pc = "sweep"
    /\ ~sweep_skips(ambulance_cooldown, At(directions, i))
    /\ process_image(signal[At(directions, i)])
    /\ sensed' = sensed \cup {At(directions, i)}
    /\ UNCHANGED failed
    /\ signal' = [signal EXCEPT ![At(directions, i)] = "none"]
    /\ ambulance_detected' = TRUE
    /\ ambulance_cooldown' = trigger(ambulance_cooldown, At(directions, i))
    /\ ticks_since_trigger' = [ticks_since_trigger EXCEPT ![At(directions, i)] = 0]
    /\ countdown' = emergency_range
    /\ pc' = "emergency"
    /\ phase' = [kind |-> "EMERGENCY", active |-> At(directions, i), index |-> i,
                 duration |-> signal_duration, done |-> FALSE]
    /\ phase_log' = <<>>
    /\ cycle_phases' = Append(cycle_phases, <<"EMERGENCY", At(directions, i)>>)
    /\ UNCHANGED <<prog, i, display, window, first_reporter, cooldown_at_cycle_start,
                   sweeps, adaptive_vars, empty_cycles>>

\* lines 162-184: one pass of the emergency countdown: draw, show, wait a second
EmergencyTick ==
    /\ prog = "fixed" /\ pc = "emergency"
    /\ countdown # <<>>
    /\ display' = emergency_frame(i, Head(countdown))
    /\ phase_log' = Append(phase_log, Head(countdown))
    /\ countdown' = Tail(countdown)
    /\ UNCHANGED <<prog, pc, i, ambulance_cooldown, ambulance_detected, signal, window,
                   phase, cycle_phases, sensed, failed, first_reporter, cooldown_hist, sweeps,
                   adaptive_vars, empty_cycles>>

\* line 185: the countdown is exhausted
EmergencyEnd ==
    /\ prog = "fixed" /\ pc = "emergency"
    /\ countdown = <<>>
    /\ pc' = emergency_exit(i).pc
    /\ i' = emergency_exit(i).i
    /\ signal' = IF emergency_exit(i).pc = "sweep" THEN signal ELSE NoSignal
    /\ phase' = [phase EXCEPT !.done = TRUE]
    /\ UNCHANGED <<prog, countdown, ambulance_cooldown, ambulance_detected, display,
                   window, phase_log, cycle_phases, sensed, failed, first_reporter,
                   cooldown_hist, sweeps, adaptive_vars, empty_cycles>>

\* lines 190-195: no ambulance was detected, the normal cycle begins
StartNormalCycle ==
    /\ prog = "fixed" /\ pc = "after_sweep"
    /\ run_normal(ambulance_detected)
    /\ pc' = "normal"
    /\ i' = 0
    /\ signal' = NoSignal
    /\ UNCHANGED <<prog, countdown, ambulance_cooldown, ambulance_detected, display,
                   window, phase, phase_log, cycle_phases, sensed, failed, first_reporter,
                   cooldown_hist, sweeps, adaptive_vars, empty_cycles>>

\* line 190: an ambulance was detected, back to the top of `while True`
SkipNormalCycle ==
    /\ prog = "fixed" /\ pc = "after_sweep"
    /\ ~run_normal(ambulance_detected)
    /\ pc' = "cycle_start"
    /\ empty_cycles' = 0
    /\ signal' = NoSignal
    /\ UNCHANGED <<prog, i, countdown, ambulance_cooldown, ambulance_detected, display,
                   window, phase, phase_log, cycle_phases, sensed, failed, first_reporter,
                   cooldown_hist, sweeps, adaptive_vars>>

\* lines 195-199: the approach is in cooldown, no green for it
NormalSkip ==
    /\ prog = "fixed" /\ pc = "normal"
    /\ i < Len(directions)
    /\ normal_skips(ambulance_cooldown, At(directions, i))
    /\ i' = i + 1
    /\ UNCHANGED <<prog, pc, countdown, ambulance_cooldown, ambulance_detected, signal,
                   display, window, phase, phase_log, cycle_phases, sensed, failed,
                   first_reporter, cooldown_hist, sweeps, adaptive_vars, empty_cycles>>

\* lines 195-202: the approach gets its green, the countdown starts
NormalStart ==
    /\ prog = "fixed" /\ pc = "normal"
    /\ i < Len(directions)
    /\ ~normal_skips(ambulance_cooldown, At(directions, i))
    /\ countdown' = normal_range
    /\ pc' = "normal_tick"
    /\ phase' = [kind |-> "NORMAL", active |-> At(directions, i), index |-> i,
                 duration |-> signal_duration, done |-> FALSE]
    /\ phase_log' = <<>>
    /\ cycle_phases' = Append(cycle_phases, <<"NORMAL", At(directions, i)>>)
    /\ UNCHANGED <<prog, i, ambulance_cooldown, ambulance_detected, signal, display,
                   window, sensed, failed, first_reporter, cooldown_hist, sweeps, adaptive_vars, empty_cycles>>

\* lines 202-226: one pass of the normal countdown
NormalTick ==
    /\ prog = "fixed" /\ pc = "normal_tick"
    /\ countdown # <<>>
    /\ display' = normal_frame(i, Head(countdown))
    /\ phase_log' = Append(phase_log, Head(countdown))
    /\ countdown' = Tail(countdown)
    /\ UNCHANGED <<prog, pc, i, ambulance_cooldown, ambulance_detected, signal, window,
                   phase, cycle_phases, sensed, failed, first_reporter, cooldown_hist, sweeps,
                   adaptive_vars, empty_cycles>>

\* line 202 exhausted: on to the next approach of line 195
NormalEnd ==
    /\ prog = "fixed" /\ pc = "normal_tick"
    /\ countdown = <<>>
    /\ i' = i + 1
    /\ pc' = "normal"
    /\ phase' = [phase EXCEPT !.done = TRUE]
    /\ UNCHANGED <<prog, countdown, ambulance_cooldown, ambulance_detected, signal,
                   display, window, phase_log, cycle_phases, sensed, failed, first_reporter,
                   cooldown_hist, sweeps, adaptive_vars, empty_cycles>>

\* line 195 exhausted: back to the top of `while True`
NormalDone ==
    /\ prog = "fixed" /\ pc = "normal"
    /\ i = Len(directions)
    /\ pc' = "cycle_start"
    /\ empty_cycles' = IF cycle_phases = <<>>
                       THEN Min2(empty_cycles + 1, cooldown_duration)
                       ELSE 0
    /\ UNCHANGED <<prog, i, countdown, ambulance_cooldown, ambulance_detected, signal,
                   display, window, phase, phase_log, cycle_phases, sensed, failed,
                   first_reporter, cooldown_hist, sweeps, adaptive_vars>>

\* mutant: no `finally`, the window stays open after the interrupt
Interrupt_keeps_window ==
    /\ prog = "fixed" /\ pc # "stopped"
    /\ pc' = "stopped"
    /\ UNCHANGED <<window, display, prog, i, countdown, ambulance_cooldown, ambulance_detected, signal,
                   phase, phase_log, cycle_phases, sensed, failed, first_reporter,
                   cooldown_hist, sweeps, adaptive_vars, empty_cycles>>

\* lines 228-231: KeyboardInterrupt, then cv2.destroyAllWindows()
Interrupt ==
    /\ prog = "fixed" /\ pc # "stopped"
    /\ pc' = "stopped"
    /\ window' = FALSE
    /\ display' = NoFrame
    /\ UNCHANGED <<prog, i, countdown, ambulance_cooldown, ambulance_detected, signal,
                   phase, phase_log, cycle_phases, sensed, failed, first_reporter,
                   cooldown_hist, sweeps, adaptive_vars, empty_cycles>>

FixedNext ==
    \/ CycleStart
    \/ SweepSkip \/ SweepUnreadable \/ SweepError \/ SweepClear \/ SweepAmbulance
    \/ EmergencyTick \/ EmergencyEnd
    \/ StartNormalCycle \/ SkipNormalCycle
    \/ NormalSkip \/ NormalStart \/ NormalTick \/ NormalEnd \/ NormalDone
    \/ Interrupt

\* lines 135-226: the steps traffic_signal_cycle takes by itself, no stop request
FixedProgress ==
    \/ CycleStart
    \/ SweepSkip \/ SweepUnreadable \/ SweepError \/ SweepClear \/ SweepAmbulance
    \/ EmergencyTick \/ EmergencyEnd
    \/ StartNormalCycle \/ SkipNormalCycle
    \/ NormalSkip \/ NormalStart \/ NormalTick \/ NormalEnd \/ NormalDone

(***************************************************************************)
(* process_intersection: actions                                           *)
(***************************************************************************)
fixed_vars == <<ambulance_cooldown, ambulance_detected, signal, sweeps, sensed, failed,
                first_reporter, cooldown_hist, empty_cycles, static_vars>>

\* light.py lines 135-138: one pass of the counting loop
CountCarsWith(result) ==
    /\ prog = "adaptive" /\ pc = "count"
    /\ timers' = [d \in DOMAIN timers \cup {At(images_order, i)} |->
                     IF d = At(images_order, i)
                     THEN calculate_timer(count_cars(result))
                     ELSE timers[d]]
    /\ i' = IF i + 1 < Len(images_order) THEN i + 1 ELSE 0
    /\ pc' = IF i + 1 < Len(images_order) THEN "count" ELSE "cycle"
    /\ UNCHANGED <<prog, countdown, display, window, cycle, phase, phase_log,
                   cycle_phases, total_phases, fixed_vars>>

CountCars == \E result \in CountResults : CountCarsWith(result)

\* mutant: the loop is range(max_cycles + 1)
AdaptiveCycle_one_more ==
    /\ prog = "adaptive" /\ pc = "cycle"
    /\ cycle <= config.max_cycles
    /\ pc' = "phase"
    /\ i' = 0
    /\ cycle_phases' = <<>>
    /\ UNCHANGED <<prog, countdown, display, window, timers, cycle, phase, phase_log,
                   total_phases, fixed_vars>>

\* light.py lines 143-146: a cycle of range(max_cycles) begins
AdaptiveCycle ==
    /\ prog = "adaptive" /\ pc = "cycle"
    /\ cycle < config.max_cycles
    /\ pc' = "phase"
    /\ i' = 0
    /\ cycle_phases' = <<>>
    /\ UNCHANGED <<prog, countdown, display, window, timers, cycle, phase, phase_log,
                   total_phases, fixed_vars>>

\* light.py lines 143, 169-170: range(max_cycles) is exhausted; finally: destroyAllWindows
AdaptiveDone ==
    /\ prog = "adaptive" /\ pc = "cycle"
    /\ ~(cycle < config.max_cycles)
    /\ pc' = "done"
    /\ window' = FALSE
    /\ display' = NoFrame
    /\ UNCHANGED <<prog, i, countdown, timers, cycle, phase, phase_log, cycle_phases,
                   total_phases, fixed_vars>>

\* light.py lines 146-156: the next approach of `order` gets its green
GreenStart ==
    /\ prog = "adaptive" /\ pc = "phase"
    /\ i < 4
    /\ LET active == At(order, i)
           green_time == timers[active]
       IN  /\ countdown' = green_range(green_time)
           /\ phase' = [kind |-> "GREEN", active |-> active, index |-> i,
                        duration |-> green_time, done |-> FALSE]
           /\ cycle_phases' = Append(cycle_phases, <<"GREEN", active>>)
    /\ phase_log' = <<>>
    /\ pc' = "green"
    /\ UNCHANGED <<prog, i, display, window, timers, cycle, total_phases, fixed_vars>>

\* light.py lines 156-160: one pass of the green countdown, no key pressed
GreenTick ==
    /\ prog = "adaptive" /\ pc = "green"
    /\ countdown # <<>>
    /\ display' = draw_traffic_ui(At(order, i), At(order, (i + 1) % 4),
                                  Head(countdown), Head(countdown))
    /\ window' = TRUE
    /\ phase_log' = Append(phase_log, Head(countdown))
    /\ countdown' = Tail(countdown)
    /\ UNCHANGED <<prog, pc, i, timers, cycle, phase, cycle_phases, total_phases,
                   fixed_vars>>

\* light.py lines 121-126, 161-163, 169-170: the frame is shown, ESC is read,
\* the windows are destroyed and the function returns
GreenEscape ==
    /\ prog = "adaptive" /\ pc = "green"
    /\ countdown # <<>>
    /\ phase_log' = Append(phase_log, Head(countdown))
    /\ display' = NoFrame
    /\ window' = FALSE
    /\ pc' = "stopped"
    /\ UNCHANGED <<prog, i, countdown, timers, cycle, phase, cycle_phases, total_phases,
                   fixed_vars>>

\* light.py lines 156, 165: the countdown is exhausted, on to the next approach
GreenEnd ==
    /\ prog = "adaptive" /\ pc = "green"
    /\ countdown = <<>>
    /\ i' = i + 1
    /\ pc' = "phase"
    /\ phase' = [phase EXCEPT !.done = TRUE]
    /\ total_phases' = total_phases + 1
    /\ UNCHANGED <<prog, countdown, display, window, timers, cycle, phase_log,
                   cycle_phases, fixed_vars>>

\* mutant: the vehicles are counted again before every cycle
AdaptiveCycleEnd_recount ==
    /\ prog = "adaptive" /\ pc = "phase"
    /\ ~(i < 4)
    /\ cycle' = cycle + 1
    /\ pc' = "count"
    /\ i' = 0
    /\ UNCHANGED <<prog, countdown, display, window, timers, phase, phase_log,
                   cycle_phases, total_phases, fixed_vars>>

\* light.py lines 143, 146: range(4) is exhausted, the next cycle
AdaptiveCycleEnd ==
    /\ prog = "adaptive" /\ pc = "phase"
    /\ ~(i < 4)
    /\ cycle' = cycle + 1
    /\ pc' = "cycle"
    /\ UNCHANGED <<prog, i, countdown, display, window, timers, phase, phase_log,
                   cycle_phases, total_phases, fixed_vars>>

\* light.py lines 161-163, 169-170: KeyboardInterrupt (Ctrl-C), finally: destroyAllWindows
AdaptiveInterrupt ==
    /\ prog = "adaptive" /\ pc \notin {"stopped", "done"}
    /\ pc' = "stopped"
    /\ window' = FALSE
    /\ display' = NoFrame
    /\ UNCHANGED <<prog, i, countdown, timers, cycle, phase, phase_log, cycle_phases,
                   total_phases, fixed_vars>>

AdaptiveNext ==
    \/ CountCars
    \/ AdaptiveCycle \/ AdaptiveDone
    \/ GreenStart \/ GreenTick \/ GreenEscape \/ GreenEnd
    \/ AdaptiveCycleEnd
    \/ AdaptiveInterrupt

\* light.py lines 135-165: the steps process_intersection takes by itself, no
\* key pressed and no interrupt
AdaptiveProgress ==
    \/ CountCars
    \/ AdaptiveCycle \/ AdaptiveDone
    \/ GreenStart \/ GreenTick \/ GreenEnd
    \/ AdaptiveCycleEnd

Next == FixedNext \/ AdaptiveNext

Spec == Init /\ [][Next]_vars

(***************************************************************************)
(* calculate_timer on its own: a configuration and two vehicle counts are  *)
(* given, the timers are computed.                                         *)
(***************************************************************************)
TimerConfigs ==
    {DefaultConfig} \cup
    [min_green_time : 1..MaxTime, max_green_time : 1..MaxTime,
     cars_per_second : 1..MaxRate, max_cycles : {max_cycles}]

InitTimer ==
    /\ prog = "timer"
    /\ pc = "calc"
    /\ config \in TimerConfigs
    /\ calc \in [counts : (0..MaxCount) \X (0..MaxCount), timers : {<<>>}]
    /\ i = 0
    /\ countdown = <<>>
    /\ ambulance_cooldown = [d \in Dirs |-> 0]
    /\ ambulance_detected = FALSE
    /\ signal = NoSignal
    /\ display = NoFrame
    /\ window = FALSE
    /\ timers = [d \in {} |-> 0]
    /\ cycle = 0
    /\ sweeps = 0
    /\ phase = NoPhase
    /\ phase_log = <<>>
    /\ cycle_phases = <<>>
    /\ sensed = {}
    /\ failed = {}
    /\ first_reporter = Len(directions)
    /\ cooldown_at_cycle_start = [d \in Dirs |-> 0]
    /\ ticks_since_trigger = [d \in Dirs |-> NeverTriggered]
    /\ total_phases = 0
    /\ empty_cycles = 0
    /\ since_green = [d \in Dirs |-> 0]
    /\ NoAccidentRun

\* light.py lines 65-70: calculate_timer applied to each of the two counts
CalculateTimer ==
    /\ prog = "timer" /\ pc = "calc"
    /\ calc' = [calc EXCEPT !.timers = <<calculate_timer(calc.counts[1]),
                                         calculate_timer(calc.counts[2])>>]
    /\ pc' = "calculated"
    /\ UNCHANGED <<prog, i, countdown, display, window, timers, cycle, phase, phase_log,
                   cycle_phases, total_phases, config, ambulance_cooldown,
                   ambulance_detected, signal, sweeps, sensed, failed, first_reporter,
                   cooldown_hist, empty_cycles, since_green, accident_vars>>

SpecTimer == InitTimer /\ [][CalculateTimer]_vars

(***************************************************************************)
(* process_intersection under any configuration the constructors accept    *)
(***************************************************************************)
\* light.py lines 16-26: the dataclass takes any values for its fields
Configs ==
    [min_green_time : 0..MaxTime, max_green_time : 0..MaxTime,
     cars_per_second : 0..MaxRate, max_cycles : 0..MaxCfgCycles]

\* light.py lines 28-31, 176-179: TrafficConfig(..), TrafficLightSystem(config)
InitConfig ==
    /\ prog = "adaptive"
    /\ pc = "count"
    /\ config \in Configs
    /\ calc = NoCalc
    /\ i = 0
    /\ countdown = <<>>
    /\ ambulance_cooldown = [d \in Dirs |-> 0]
    /\ ambulance_detected = FALSE
    /\ signal = NoSignal
    /\ display = NoFrame
    /\ window = FALSE
    /\ timers = [d \in {} |-> 0]
    /\ cycle = 0
    /\ sweeps = 0
    /\ phase = NoPhase
    /\ phase_log = <<>>
    /\ cycle_phases = <<>>
    /\ sensed = {}
    /\ failed = {}
    /\ first_reporter = Len(directions)
    /\ cooldown_at_cycle_start = [d \in Dirs |-> 0]
    /\ ticks_since_trigger = [d \in Dirs |-> NeverTriggered]
    /\ total_phases = 0
    /\ empty_cycles = 0
    /\ since_green = [d \in Dirs |-> 0]
    /\ NoAccidentRun

SpecConfig == InitConfig /\ [][AdaptiveNext]_vars

(***************************************************************************)
(* detection.py: the accident loop of main and its notification            *)
(***************************************************************************)
\* what the prediction may yield for a frame, in percent
Confidences == {85, 90, 95}
\* line 112: the literal of `if confidence > 90`
accident_threshold == 90

\* mutant: the comparison is >=
is_accident_inclusive(confidence) == confidence >= accident_threshold

\* line 112: `confidence > 90`
is_accident(confidence) == confidence > accident_threshold

\* what the telephone service does during one handle_emergency_call:
\*   "no_sid"        make_phone_call yields None (status not 201, or an exception, lines 56-61)
\*   "completed", "answered", "unanswered"   the status the query of lines 70-73 yields
\*   "status_error"  requests.get(..) or .json() of lines 70-73 raises
NotifyOutcomes == {"no_sid", "completed", "answered", "unanswered", "status_error"}

\* lines 63-77: the recipients handle_emergency_call asks make_phone_call to
\* call, and whether an exception leaves it
handle_emergency_call(outcome) ==
    [calls  |-> IF outcome = "unanswered" THEN <<"first", "second">> ELSE <<"first">>,
     raises |-> (outcome = "status_error")]

\* the two schedulers are not started
SchedulersIdle ==
    /\ i = 0
    /\ countdown = <<>>
    /\ ambulance_cooldown = [d \in Dirs |-> 0]
    /\ ambulance_detected = FALSE
    /\ signal = NoSignal
    /\ display = NoFrame
    /\ window = FALSE
    /\ timers = [d \in {} |-> 0]
    /\ cycle = 0
    /\ sweeps = 0
    /\ phase = NoPhase
    /\ phase_log = <<>>
    /\ cycle_phases = <<>>
    /\ sensed = {}
    /\ failed = {}
    /\ first_reporter = Len(directions)
    /\ cooldown_at_cycle_start = [d \in Dirs |-> 0]
    /\ ticks_since_trigger = [d \in Dirs |-> NeverTriggered]
    /\ total_phases = 0
    /\ empty_cycles = 0
    /\ since_green = [d \in Dirs |-> 0]
    /\ config = DefaultConfig
    /\ calc = NoCalc

scheduler_vars == <<i, countdown, ambulance_cooldown, ambulance_detected, signal, display,
                    window, timers, cycle, sweeps, phase, phase_log, cycle_phases, sensed,
                    failed, first_reporter, cooldown_hist, total_phases, empty_cycles,
                    config, calc, since_green>>

\* lines 81-96: model loaded, video opened, flag cleared
InitAccident ==
    /\ prog = "accident"
    /\ pc = "read"
    /\ video \in UNION {[1..n -> Confidences] : n \in 0..MaxFrames}
    /\ frame_no = 0
    /\ accident_detected = FALSE
    /\ cap_open = TRUE
    /\ raised = <<>>
    /\ calls = <<>>
    /\ SchedulersIdle

\* lines 99-101, 131-132: cap.read() yields no frame; break, release, destroy
VideoEnd ==
    /\ prog = "accident" /\ pc = "read"
    /\ frame_no = Len(video)
    /\ pc' = "completed"
    /\ cap_open' = FALSE
    /\ UNCHANGED <<prog, video, frame_no, accident_detected, raised, calls, scheduler_vars>>

\* lines 99-124: a frame that starts no notification is predicted and shown
FramePlain ==
    /\ prog = "accident" /\ pc = "read"
    /\ frame_no < Len(video)
    /\ ~(is_accident(video[frame_no + 1]) /\ ~accident_detected)
    /\ frame_no' = frame_no + 1
    /\ pc' = "shown"
    /\ UNCHANGED <<prog, video, accident_detected, cap_open, raised, calls, scheduler_vars>>

\* lines 99-124, 135-136: the first frame above the threshold; the call
\* sequence runs, then either the flag is set and the frame is shown, or the
\* exception of the status query reaches `except Exception` of main
Notify(outcome) ==
    /\ prog = "accident" /\ pc = "read"
    /\ frame_no < Len(video)
    /\ is_accident(video[frame_no + 1]) /\ ~accident_detected
    /\ frame_no' = frame_no + 1
    /\ raised' = Append(raised, frame_no + 1)
    /\ calls' = calls \o handle_emergency_call(outcome).calls
    /\ IF handle_emergency_call(outcome).raises
       THEN /\ pc' = "error"
            /\ UNCHANGED accident_detected
       ELSE /\ pc' = "shown"
            /\ accident_detected' = TRUE
    /\ UNCHANGED <<prog, video, cap_open, scheduler_vars>>

FrameAccident == \E outcome \in NotifyOutcomes : Notify(outcome)

\* line 127: no `q` read by waitKey
KeyNone ==
    /\ prog = "accident" /\ pc = "shown"
    /\ pc' = "read"
    /\ UNCHANGED <<prog, accident_vars, scheduler_vars>>

\* lines 127-132: `q` read; break, release, destroy
KeyQuit ==
    /\ prog = "accident" /\ pc = "shown"
    /\ pc' = "completed"
    /\ cap_open' = FALSE
    /\ UNCHANGED <<prog, video, frame_no, accident_detected, raised, calls, scheduler_vars>>

AccidentNext == VideoEnd \/ FramePlain \/ FrameAccident \/ KeyNone \/ KeyQuit

SpecAccident == InitAccident /\ [][AccidentNext]_vars

(***************************************************************************)
(* traffic_signal_cycle, one step per pass of `while True`: every          *)
(* countdown runs to its end and no stop is requested; perception may      *)
(* yield anything in every pass, without end.                              *)
(***************************************************************************)
\* the largest value since_green is counted up to
SinceCap == 2 * cooldown_duration + Len(directions)

\* lines 142-158: the index of the first approach of the sweep that is not
\* skipped and whose image shows an ambulance; Len(directions) when none
first_emergency(cd, s) ==
    LET R == {k \in 0..(Len(directions) - 1) :
                 /\ ~sweep_skips(cd, At(directions, k))
                 /\ process_image(s[At(directions, k)])}
    IN  IF R = {} THEN Len(directions) ELSE CHOOSE k \in R : \A m \in R : k <= m

\* lines 195-202: the approaches of the normal rotation that get a phase, in order
normal_phases(cd) ==
    LET F[k \in 0..Len(directions)] ==
            IF k = 0 THEN <<>>
            ELSE IF normal_skips(cd, At(directions, k - 1))
                 THEN F[k - 1]
                 ELSE Append(F[k - 1], <<"NORMAL", At(directions, k - 1)>>)
    IN  F[Len(directions)]

\* lines 8-13, 117-128: as Init of the fixed scheduler
InitCycles ==
    /\ prog = "cycles"
    /\ pc = "cycle_start"
    /\ i = 0
    /\ countdown = <<>>
    /\ ambulance_cooldown = [d \in Dirs |-> 0]
    /\ ambulance_detected = FALSE
    /\ signal = NoSignal
    /\ display = NoFrame
    /\ window = TRUE
    /\ timers = [d \in {} |-> 0]
    /\ cycle = 0
    /\ sweeps = 0
    /\ phase = NoPhase
    /\ phase_log = <<>>
    /\ cycle_phases = <<>>
    /\ sensed = {}
    /\ failed = {}
    /\ first_reporter = Len(directions)
    /\ cooldown_at_cycle_start = [d \in Dirs |-> 0]
    /\ ticks_since_trigger = [d \in Dirs |-> NeverTriggered]
    /\ total_phases = 0
    /\ empty_cycles = 0
    /\ since_green = [d \in Dirs |-> 0]
    /\ config = DefaultConfig
    /\ calc = NoCalc
    /\ NoAccidentRun

\* lines 129-226: one pass of `while True` in which the perception of the
\* approaches not in cooldown yields t.  The values of the pass (cooldowns
\* after the update, first reporter, flag, cooldowns after the sweep, phases)
\* are bound one after the other, each computed once.
OuterCycle(t) ==
    /\ prog = "cycles" /\ pc = "cycle_start"
    /\ \E cd \in {tick_cooldown(ambulance_cooldown)} :
       \E k \in {first_emergency(cd, [d \in Dirs |-> IF d \in DOMAIN t THEN t[d]
                                                     ELSE "none"])} :
       \E detected \in {k < Len(directions)} :
       \E after \in {IF detected THEN trigger(cd, At(directions, k)) ELSE cd} :
       \E phases \in {IF detected THEN <<<<"EMERGENCY", At(directions, k)>>>>
                      ELSE IF run_normal(detected) THEN normal_phases(after)
                      ELSE <<>>} :
       \E greens \in {{phases[n][2] : n \in 1..Len(phases)}} :
          /\ ambulance_cooldown' = after
          /\ ambulance_detected' = detected
          /\ first_reporter' = k
          /\ cycle_phases' = phases
          /\ since_green' =
                [d \in Dirs |-> IF d \in greens THEN 0
                                ELSE Min2(since_green[d] + 1, SinceCap)]
    /\ UNCHANGED <<prog, pc, i, countdown, signal, display, window, timers, cycle,
                   sweeps, phase, phase_log, sensed, failed, cooldown_hist,
                   total_phases, empty_cycles, config, calc, accident_vars>>

\* the perception results a pass may meet: one per approach not in cooldown
Perceptions ==
    [{d \in Dirs : ~sweep_skips(tick_cooldown(ambulance_cooldown), d)} -> Outcomes]

\* a pass whose sweep finds an ambulance (lines 156-185)
EmergencyCycle ==
    \E t \in Perceptions :
        /\ \E d \in DOMAIN t : process_image(t[d])
        /\ OuterCycle(t)

\* a pass whose sweep finds none (lines 190-226)
NormalCycle ==
    \E t \in Perceptions :
        /\ \A d \in DOMAIN t : ~process_image(t[d])
        /\ OuterCycle(t)

CyclesNext == EmergencyCycle \/ NormalCycle

SpecCycles == InitCycles /\ [][CyclesNext]_vars

(***************************************************************************)
(* Properties                                                              *)
(***************************************************************************)
IndexOf(d) == CHOOSE k \in 0..(Len(directions) - 1) : At(directions, k) = d
Green(frame) == {d \in Dirs : frame[d].color = "green"}
InCountdown == pc \in {"emergency", "normal_tick", "green"}
PhasesOfKind(kind) == {n \in 1..Len(cycle_phases) : cycle_phases[n][1] = kind}
\* the value the cooldown update of this cycle leaves for an approach
AfterUpdate(d) ==
    IF cooldown_at_cycle_start[d] > 0 THEN cooldown_at_cycle_start[d] - 1 ELSE 0

\* C1: every frame shown by either scheduler (emergency phase, normal phase,
\* adaptive green phase) has exactly one GREEN approach, the active one; a
\* countdown that has emitted a tick event has such a frame on display.
C1_ExactlyOneGreen ==
    /\ display # NoFrame => Cardinality(Green(display)) = 1
    /\ (InCountdown /\ phase_log # <<>>) => Green(display) = {phase.active}

\* C1 witness: the last frame of an emergency phase for North (index 3, whose
\* next approach wraps around to East) is on display.
C1_Witness ==
    /\ pc = "emergency" /\ phase.active = "North" /\ phase_log # <<>>
    /\ countdown = <<>>
    /\ display["North"].color = "green" /\ display["East"].color = "red"

\* C2: an approach in cooldown is never selected: the step that starts an
\* EMERGENCY or a NORMAL phase for approach a finds ambulance_cooldown[a] = 0,
\* and an approach whose cooldown is positive has not been sensed in the
\* current sweep (unless this sweep triggered it) and got no normal green in
\* the current cycle.
C2_NeverSelectedInCooldown ==
    /\ [](\A d \in Dirs :
            ambulance_cooldown[d] > 0 =>
               /\ d \in sensed => ticks_since_trigger[d] = 0
               /\ \A n \in PhasesOfKind("NORMAL") : cycle_phases[n][2] # d)
    /\ [][((pc # "emergency" /\ pc' = "emergency") \/
           (pc # "normal_tick" /\ pc' = "normal_tick"))
             => ambulance_cooldown[phase'.active] = 0]_vars

\* C2 witness: a normal green runs for West while South, earlier in the
\* rotation, is in cooldown, was not sensed and got no green in this cycle.
C2_Witness ==
    /\ pc = "normal_tick" /\ phase.active = "West"
    /\ ambulance_cooldown["South"] > 0
    /\ "South" \notin sensed
    /\ cycle_phases = << <<"NORMAL", "East">>, <<"NORMAL", "West">> >>

\* C3: an emergency phase goes to the approach with the lowest rotation index
\* among the non-suppressed approaches that report an ambulance in the sweep,
\* and such an approach always gets it.
C3_EmergencyTieBreak ==
    /\ \A n \in PhasesOfKind("EMERGENCY") :
          /\ first_reporter < Len(directions)
          /\ cycle_phases[n][2] = At(directions, first_reporter)
    /\ (first_reporter < Len(directions) /\ pc \in {"emergency", "after_sweep"})
          => /\ cycle_phases # <<>>
             /\ cycle_phases[1] = <<"EMERGENCY", At(directions, first_reporter)>>

\* C3 witness: no approach is suppressed, indices 0, 2 and 3 report an
\* ambulance, index 1 does not, and the emergency phase runs for index 0.
C3_Witness ==
    /\ pc = "emergency" /\ i = 0 /\ phase.active = "East"
    /\ \A d \in Dirs : cooldown_at_cycle_start[d] = 0
    /\ signal["South"] = "clear"
    /\ signal["West"] = "ambulance" /\ signal["North"] = "ambulance"

\* C4: in an outer cycle whose sweep has a non-suppressed approach reporting
\* an ambulance no NORMAL phase runs; the normal rotation is entered only
\* when the sweep found no emergency.
C4_EmergencyPriority ==
    /\ first_reporter < Len(directions)
          => /\ PhasesOfKind("NORMAL") = {}
             /\ pc \notin {"normal", "normal_tick"}
    /\ (pc \in {"normal", "normal_tick"} \/ PhasesOfKind("NORMAL") # {})
          => /\ first_reporter = Len(directions)
             /\ ~ambulance_detected
             /\ PhasesOfKind("EMERGENCY") = {}

\* C4 witness: an outer cycle in which South (not the first approach)
\* reported an ambulance has ended after its emergency phase alone.
C4_Witness ==
    /\ pc = "cycle_start" /\ first_reporter = 1
    /\ cycle_phases = << <<"EMERGENCY", "South">> >>
    /\ phase.done

\* C5: an outer cycle has at most one EMERGENCY phase; once its countdown is
\* exhausted no approach after the selected one is sensed, no other cooldown
\* is set in that cycle, and control is at the end of the sweep or at the
\* start of the next outer cycle.
C5_OneEmergencyPerCycle ==
    /\ Cardinality(PhasesOfKind("EMERGENCY")) <= 1
    /\ \A n \in PhasesOfKind("EMERGENCY") :
          LET a == cycle_phases[n][2] IN
          /\ \A d \in sensed : IndexOf(d) <= IndexOf(a)
          /\ \A d \in Dirs \ {a} : ambulance_cooldown[d] = AfterUpdate(d)
    /\ (ambulance_detected /\ phase.done)
          => pc \in {"after_sweep", "cycle_start", "stopped"}

\* C5 witness: the emergency phase of East is over, West and North still
\* have an ambulance to report and were not sensed.
C5_Witness ==
    /\ pc = "emergency" /\ countdown = <<>> /\ phase.active = "East"
    /\ signal["West"] = "ambulance" /\ signal["North"] = "ambulance"
    /\ sensed = {"East"}

\* C6: the step that starts the emergency phase of approach a sets
\* ambulance_cooldown[a] to 30 and leaves every other cooldown as it was; the
\* value is 30 for the rest of that outer cycle, and in the next outer cycle
\* (one update later) a is at 29, is not sensed and gets no phase.
C6_TriggerSetsCooldown ==
    /\ [][(pc # "emergency" /\ pc' = "emergency")
            => ambulance_cooldown' = [ambulance_cooldown EXCEPT ![phase'.active] = 30]]_vars
    /\ [](\A n \in PhasesOfKind("EMERGENCY") : ambulance_cooldown[cycle_phases[n][2]] = 30)
    /\ [](\A a \in Dirs :
            ticks_since_trigger[a] = 1 =>
               /\ ambulance_cooldown[a] = 29
               /\ a \notin sensed
               /\ \A n \in 1..Len(cycle_phases) : cycle_phases[n][2] # a)

\* C6 witness: South alone triggered an emergency in the previous outer
\* cycle; the sweep of this cycle has read East and has gone past South.
C6_Witness ==
    /\ pc = "sweep" /\ i = 2
    /\ ticks_since_trigger["South"] = 1
    /\ ambulance_cooldown = [d \in Dirs |-> IF d = "South" THEN 29 ELSE 0]
    /\ sensed = {"East"}

\* C7: after a trigger with length L = cooldown_duration, the approach is
\* suppressed until L cooldown updates have been applied and is unsuppressed
\* from the L-th update on: after n <= L updates its cooldown is L - n.
C7_SuppressedForLTicks ==
    \A a \in Dirs :
       /\ ticks_since_trigger[a] <= cooldown_duration
             => ambulance_cooldown[a] = cooldown_duration - ticks_since_trigger[a]
       /\ ticks_since_trigger[a] < cooldown_duration => ambulance_cooldown[a] > 0
       /\ ticks_since_trigger[a] >= cooldown_duration => ambulance_cooldown[a] = 0

\* C7 witness: the L-th update after South's trigger has been applied, South
\* is unsuppressed again and the sweep has just read it.
C7_Witness ==
    /\ ticks_since_trigger["South"] = cooldown_duration
    /\ cooldown_at_cycle_start["South"] = 1
    /\ ambulance_cooldown["South"] = 0
    /\ pc = "sweep" /\ "South" \in sensed

\* C8: throughout an outer cycle (sweep, phases, countdown ticks) the
\* cooldown of every approach not triggered in this cycle is the value the
\* cycle found, less 1 if it was positive: one decrement per outer cycle,
\* applied before the sweep, and none in the countdowns.
C8_OneDecrementPerCycle ==
    \A d \in Dirs :
       /\ ticks_since_trigger[d] # 0 => ambulance_cooldown[d] = AfterUpdate(d)
       /\ (pc = "sweep" /\ i <= IndexOf(d)) => ambulance_cooldown[d] = AfterUpdate(d)

\* C8 witness: an outer cycle with three normal phases (33 tick events) has
\* ended and South's cooldown went from 30 to 29 in it.
C8_Witness ==
    /\ pc = "cycle_start" /\ Len(cycle_phases) = 3 /\ phase.done
    /\ cooldown_at_cycle_start["South"] = 30
    /\ ambulance_cooldown["South"] = 29

\* the countdown from duration d down to `last`, as a sequence of tick values
Expected(d, last) == [n \in 1..(d - last + 1) |-> d - n + 1]
IsPrefix(s, t) == Len(s) <= Len(t) /\ \A n \in 1..Len(s) : s[n] = t[n]

\* C9 as stated: every completed phase of duration d, in either scheduler,
\* has emitted the d+1 tick events d, d-1, ..., 1, 0.
C9_Original ==
    /\ phase.kind # "none" => IsPrefix(phase_log, Expected(phase.duration, 0))
    /\ phase.done => phase_log = Expected(phase.duration, 0)

\* C9 amended: an emergency or normal phase of traffic_signal_cycle emits the
\* d+1 tick events d, ..., 1, 0 (d = signal_duration); a green phase of
\* process_intersection of duration d emits the d tick events d, ..., 1 and
\* none for 0.
C9_Countdown ==
    /\ phase.kind \in {"EMERGENCY", "NORMAL"} =>
          /\ phase.duration = signal_duration
          /\ IsPrefix(phase_log, Expected(phase.duration, 0))
          /\ phase.done => /\ phase_log = Expected(phase.duration, 0)
                           /\ Len(phase_log) = phase.duration + 1
    /\ phase.kind = "GREEN" =>
          /\ IsPrefix(phase_log, Expected(phase.duration, 1))
          /\ phase.done => /\ phase_log = Expected(phase.duration, 1)
                           /\ Len(phase_log) = phase.duration

\* C9 witness: a green phase of 15 seconds has completed with 15 tick
\* events, the last of them showing 1.
C9_Witness ==
    /\ phase.kind = "GREEN" /\ phase.done /\ phase.duration = 15
    /\ Len(phase_log) = 15 /\ phase_log[15] = 1

C11_EmergencyFrame ==
    (pc = "emergency" /\ phase_log # <<>>) =>
       /\ display[phase.active] =
             Light("green", "EMERGENCY GREEN", {phase_log[Len(phase_log)]})
       /\ \A d \in Dirs \ {phase.active} :
             IF IndexOf(d) = (phase.index + 1) % 4
             THEN /\ display[d].color = "red" /\ display[d].status = "NEXT"
                  /\ display[d].timer = display[phase.active].timer
             ELSE display[d].color = "red" /\ display[d].timer = {}
       /\ \A d \in Dirs : display[d].color # "yellow"

\* C11 witness: the frame of South's emergency phase at countdown 4: West is
\* red, NEXT, 4.
C11_Witness ==
    /\ pc = "emergency" /\ phase.active = "South"
    /\ display["South"] = Light("green", "EMERGENCY GREEN", {4})
    /\ display["West"] = Light("red", "NEXT", {4})
    /\ display["East"].timer = {} /\ display["North"].timer = {}

\* the clamp of x to [lo, hi]
Clamp(x, lo, hi) == IF x < lo THEN lo ELSE IF x > hi THEN hi ELSE x

\* C12: for positive configuration values with min_green_time <=
\* max_green_time, calculate_timer(c) is the clamp of c * cars_per_second to
\* [min_green_time, max_green_time]: min_green_time (not 0) for c = 0,
\* max_green_time once c * cars_per_second >= max_green_time, non-decreasing
\* in c; with the default configuration 0, 3, 12 give 10, 15, 30.
C12_TimerIsClamp ==
    (pc = "calculated" /\ config.min_green_time <= config.max_green_time) =>
       /\ \A k \in 1..2 :
             LET c == calc.counts[k]
                 t == calc.timers[k]
             IN  /\ t = Clamp(c * config.cars_per_second,
                              config.min_green_time, config.max_green_time)
                 /\ c = 0 => (t = config.min_green_time /\ t # 0)
                 /\ c * config.cars_per_second >= config.max_green_time
                       => t = config.max_green_time
                 /\ config = DefaultConfig =>
                       /\ c = 0 => t = 10
                       /\ c = 3 => t = 15
                       /\ c = 12 => t = 30
       /\ calc.counts[1] <= calc.counts[2] => calc.timers[1] <= calc.timers[2]

\* C12 witness: the default configuration, counts 3 and 12, timers 15 and 30
\* (clamped from 60).
C12_Witness ==
    /\ pc = "calculated" /\ config = DefaultConfig
    /\ calc.counts = <<3, 12>> /\ calc.timers = <<15, 30>>

\* the four cooldowns are positive after this cycle's update and none of them
\* was set in this cycle
AllSuppressed ==
    /\ prog = "fixed" /\ pc \notin {"cycle_start", "stopped"}
    /\ \A d \in Dirs : ambulance_cooldown[d] > 0 /\ ticks_since_trigger[d] # 0

\* C13: a cycle of the fixed scheduler in which all four approaches are
\* suppressed has no phase and no tick event: no approach is sensed, no frame
\* is counted down, the control only passes through the two loops; the
\* scheduler can always take its next step, and the number of such cycles in
\* a row never exceeds cooldown_duration - 4, after which a phase runs again.
C13_AllSuppressedCycle ==
    /\ AllSuppressed =>
          /\ cycle_phases = <<>> /\ sensed = {} /\ ~ambulance_detected
          /\ pc \in {"sweep", "after_sweep", "normal"}
          /\ countdown = <<>>
    /\ (prog = "fixed" /\ pc # "stopped") => ENABLED FixedProgress
    /\ empty_cycles <= cooldown_duration - Len(directions)

C13_Witness ==
    /\ empty_cycles = cooldown_duration - Len(directions)
    /\ pc = "normal_tick" /\ phase.kind = "NORMAL"
    /\ \A d \in Dirs : ticks_since_trigger[d] <= cooldown_duration

\* the green phases of one adaptive cycle, in the order of `order`
GreenPhases(n) == [k \in 1..n |-> <<"GREEN", order[k]>>]

\* an upper bound of the steps process_intersection still takes by itself
PhaseCost == config.max_green_time + 2
CycleCost == 4 * PhaseCost + 2
StepsLeft ==
    CASE pc = "count" -> (Len(images_order) - i) + config.max_cycles * CycleCost + 1
      [] pc = "cycle" -> (config.max_cycles - cycle) * CycleCost + 1
      [] pc = "phase" -> (4 - i) * PhaseCost + 1
                         + (config.max_cycles - cycle - 1) * CycleCost + 1
      [] pc = "green" -> Len(countdown) + 1 + (3 - i) * PhaseCost + 1
                         + (config.max_cycles - cycle - 1) * CycleCost + 1
      [] OTHER -> 0

C14_State ==
    /\ prog = "adaptive" =>
          /\ cycle <= config.max_cycles
          /\ pc = "done" => /\ cycle = config.max_cycles
                            /\ total_phases = 4 * config.max_cycles
                            /\ cycle_phases = GreenPhases(4)
          /\ pc = "phase" => /\ cycle_phases = GreenPhases(i)
                             /\ total_phases = 4 * cycle + i
          /\ pc = "green" => /\ cycle_phases = GreenPhases(i + 1)
                             /\ total_phases = 4 * cycle + i
          /\ (pc = "cycle" /\ cycle > 0) => /\ cycle_phases = GreenPhases(4)
                                            /\ total_phases = 4 * cycle
          /\ pc \notin {"done", "stopped"} => ENABLED AdaptiveProgress
    /\ prog = "fixed" =>
          /\ pc # "done"
          /\ pc # "stopped" => ENABLED FixedProgress

C14_Step ==
    /\ AdaptiveProgress => StepsLeft' < StepsLeft
    /\ (prog = "adaptive" /\ pc' = "done") => AdaptiveDone
    /\ (prog = "fixed" /\ pc' = "stopped") => Interrupt

\* C14: without a stop request the adaptive scheduler runs exactly max_cycles
\* cycles, each with the four green phases in the order North, East, South,
\* West, 4 * max_cycles phases in all, and then is done: until then it always
\* has a next step and every step brings it nearer to the end.  The fixed
\* scheduler is never done, always has a next step, and stops only by Interrupt.
C14_Termination == []C14_State /\ [][C14_Step]_vars

C14_Witness ==
    /\ prog = "adaptive" /\ pc = "done"
    /\ cycle = max_cycles /\ total_phases = 4 * max_cycles

\* a stop request: Ctrl-C in either scheduler, ESC read by draw_traffic_ui
StopRequest == Interrupt \/ AdaptiveInterrupt \/ GreenEscape

C15_State ==
    /\ pc = "stopped" => /\ ~window /\ display = NoFrame
                         /\ ~ENABLED Next
    /\ (prog = "fixed" /\ pc # "stopped") => ENABLED Interrupt
    /\ (prog = "adaptive" /\ pc \notin {"stopped", "done"}) => ENABLED AdaptiveInterrupt
    /\ (pc = "green" /\ countdown # <<>>) => ENABLED GreenEscape

C15_Step ==
    /\ pc # "stopped"
    /\ StopRequest => /\ pc' = "stopped"
                      /\ countdown' = countdown /\ cycle_phases' = cycle_phases
                      /\ total_phases' = total_phases

\* C15: in every state of either scheduler that is not terminal, also between
\* two ticks of a countdown, a stop request can be taken; it leads to
\* "stopped" with the rest of the countdown left unrun, the window destroyed
\* and no frame on display, and no step (tick, phase or otherwise) follows.
C15_StopRequest == []C15_State /\ [][C15_Step]_vars

C15_Witness ==
    /\ prog = "fixed" /\ pc = "stopped"
    /\ phase.kind = "EMERGENCY" /\ phase_log # <<>> /\ countdown # <<>>
    /\ ~window /\ display = NoFrame

Failures == {r \in CountResults : r.kind # "ok"}

C16_State ==
    /\ failed \subseteq sensed
    /\ \A d \in failed :
          /\ ambulance_cooldown[d] = AfterUpdate(d)
          /\ ticks_since_trigger[d] # 0
          /\ \A n \in PhasesOfKind("EMERGENCY") : cycle_phases[n][2] # d
    /\ (prog = "fixed" /\ pc \in {"sweep", "after_sweep"} /\ ~ambulance_detected) =>
          \A k \in 0..(i - 1) :
              At(directions, k) \in sensed \/ ambulance_cooldown[At(directions, k)] > 0
    /\ (prog = "fixed" /\ pc = "normal" /\ i = Len(directions)) =>
          \A d \in failed : \E n \in PhasesOfKind("NORMAL") : cycle_phases[n][2] = d
    /\ (failed # {} /\ pc # "stopped") => ENABLED FixedProgress
    /\ (prog = "adaptive" /\ pc \notin {"done", "stopped"}) => ENABLED AdaptiveProgress

C16_Step ==
    /\ (SweepUnreadable \/ SweepError) =>
          /\ ambulance_cooldown' = ambulance_cooldown
          /\ ambulance_detected' = ambulance_detected
          /\ cycle_phases' = cycle_phases /\ phase' = phase
          /\ i' = i + 1
          /\ pc' = IF i' < Len(directions) THEN "sweep" ELSE "after_sweep"
    /\ \A r \in Failures :
          CountCarsWith(r) =>
              /\ timers'[At(images_order, i)] = config.min_green_time
              /\ \A d \in DOMAIN timers : timers'[d] = timers[d]
              /\ pc' = IF i + 1 < Len(images_order) THEN "count" ELSE "cycle"

\* C16: a perception failure (unreadable image, error raised by the detector)
\* on an approach leaves its cooldown and the emergency flag as they are and
\* starts no phase; the sweep goes on with the next approach, so that every
\* approach not in cooldown is still sensed in the same cycle; the scheduler
\* keeps running, and when the cycle runs the normal rotation the failed
\* approach gets its normal green.  In the counting loop of the adaptive
\* scheduler a failed count only gives that approach min_green_time.
C16_LocalRecovery == []C16_State /\ [][C16_Step]_vars

C16_Witness ==
    /\ prog = "fixed" /\ pc = "normal_tick"
    /\ failed = {"East", "South"} /\ sensed = Dirs
    /\ phase.kind = "NORMAL" /\ phase.active = "South"

\* a configuration the specification calls valid
ValidConfig(c) ==
    /\ c.min_green_time > 0 /\ c.max_green_time > 0
    /\ c.cars_per_second > 0 /\ c.max_cycles > 0
    /\ c.min_green_time <= c.max_green_time

\* C17: with an invalid configuration (a non-positive min_green_time,
\* max_green_time, cars_per_second or max_cycles, or min_green_time above
\* max_green_time) the scheduler never starts: no phase begins, no tick
\* event is emitted, no window is opened and no frame is shown.
C17_InvalidConfigRejected ==
    ~ValidConfig(config) =>
        /\ phase = NoPhase /\ cycle_phases = <<>> /\ phase_log = <<>>
        /\ display = NoFrame /\ ~window

\* the frames among the first n whose confidence is above the threshold
Above(n) == {k \in 1..n : video[k] > accident_threshold}
FirstAbove(n) == CHOOSE k \in Above(n) : \A m \in Above(n) : k <= m

\* C18: in the accident loop the notification is raised at most once, and
\* exactly at the first frame whose confidence is above 90: after any number
\* of frames, it has been raised once, at that frame, when one of them was
\* above 90, and not at all when none was; the first recipient is called once.
C18_RaisedOnceAtFirst ==
    prog = "accident" =>
        /\ Len(raised) <= 1
        /\ raised = IF Above(frame_no) = {} THEN <<>> ELSE <<FirstAbove(frame_no)>>
        /\ Cardinality({n \in 1..Len(calls) : calls[n] = "first"}) = Len(raised)

C18_Witness ==
    /\ prog = "accident" /\ pc = "completed"
    /\ video = <<90, 95, 85, 95>> /\ frame_no = 4
    /\ raised = <<2>>

\* C19: whatever the call sequence does (first call not initiated, status
\* query answered or failing), once the notification has been raised the
\* accident flag is set and the loop goes on with the following frames.
C19_OutcomeIgnored ==
    (prog = "accident" /\ raised # <<>>) =>
        /\ accident_detected
        /\ pc # "error"

C20_State ==
    prog = "adaptive" =>
        /\ pc = "count" => /\ DOMAIN timers = {At(images_order, k) : k \in 0..(i - 1)}
                           /\ phase = NoPhase /\ cycle = 0
        /\ pc \in {"cycle", "phase", "green", "done"} => DOMAIN timers = Dirs
        /\ \A d \in DOMAIN timers :
              \E r \in CountResults :
                  timers[d] = Clamp(count_cars(r) * config.cars_per_second,
                                    config.min_green_time, config.max_green_time)
        /\ phase.kind = "GREEN" =>
              /\ phase.duration = timers[phase.active]
              /\ pc = "green" => phase_log \o countdown = green_range(timers[phase.active])

C20_Step ==
    /\ timers' # timers =>
          /\ prog = "adaptive" /\ pc = "count" /\ cycle = 0 /\ phase = NoPhase
          /\ At(images_order, i) \notin DOMAIN timers
          /\ DOMAIN timers' = DOMAIN timers \cup {At(images_order, i)}
          /\ \A d \in DOMAIN timers : timers'[d] = timers[d]
    /\ \A r \in Failures :
          CountCarsWith(r) =>
              /\ timers'[At(images_order, i)] = config.min_green_time
              /\ \A d \in DOMAIN timers : timers'[d] = timers[d]

\* C20: the adaptive scheduler computes the green duration of each approach
\* once, from one vehicle count, before the first cycle: timers is written
\* only by the counting loop, one new approach per pass, and by nothing after
\* it; every green phase of every cycle lasts timers[active]; a failed count
\* gives its approach min_green_time and leaves the other durations alone.
C20_TimersComputedOnce == []C20_State /\ [][C20_Step]_vars

C20_Witness ==
    /\ prog = "adaptive" /\ pc = "green" /\ cycle = max_cycles - 1
    /\ timers["North"] = min_green_time /\ timers["East"] = max_green_time
    /\ timers["South"] = 15 /\ timers["West"] = 20
    /\ phase.active = "West" /\ phase.duration = 20 /\ Len(phase_log) = 20

\* the approach that had the phase before the running one in this pass
PreviousActive == cycle_phases[Len(cycle_phases) - 1][2]

\* C21: in a pass of the normal rotation the approach that gets the green
\* after approach a is the one the frames of a's phase marked NEXT, the
\* approach at index (index of a + 1) mod 4, also when approaches are in
\* cooldown.
C21_NextGetsNextGreen ==
    (prog = "fixed" /\ pc = "normal_tick" /\ Len(cycle_phases) >= 2) =>
        /\ phase.active = At(directions, (IndexOf(PreviousActive) + 1) % 4)
        /\ phase_log = <<>> => display[phase.active].status = "NEXT"

C22_State ==
    \A d \in Dirs : ambulance_cooldown[d] \in 0..cooldown_duration

C22_Step ==
    /\ \A d \in Dirs :
          /\ ambulance_cooldown'[d] > ambulance_cooldown[d] =>
                /\ SweepAmbulance /\ d = At(directions, i)
                /\ ambulance_cooldown[d] = 0
                /\ ambulance_cooldown'[d] = cooldown_duration
          /\ ambulance_cooldown'[d] < ambulance_cooldown[d] =>
                /\ CycleStart
                /\ ambulance_cooldown'[d] = ambulance_cooldown[d] - 1
    /\ (CycleStart /\ \A d \in Dirs : ambulance_cooldown[d] = 0) =>
          ambulance_cooldown' = ambulance_cooldown
    /\ SweepAmbulance => ambulance_cooldown[At(directions, i)] = 0

\* C22: every cooldown is in 0..cooldown_duration in every state; a cooldown
\* goes down only by the update at the start of an outer cycle, by 1 and not
\* below 0, and the update of a mapping that is all 0 changes nothing; a
\* cooldown goes up only when an emergency is started for its approach, from
\* 0 to cooldown_duration, never from a positive value.
C22_CooldownRange == []C22_State /\ [][C22_Step]_vars

C22_Witness ==
    /\ prog = "fixed" /\ pc = "emergency"
    /\ phase.active = "East" /\ ambulance_cooldown["East"] = cooldown_duration
    /\ ambulance_cooldown["South"] = cooldown_duration - 3
    /\ ambulance_cooldown["West"] = 0 /\ ambulance_cooldown["North"] = 0

\* the longest run of outer cycles without green for an approach: 29 cycles
\* of its own cooldown, then one emergency of each of the three others
StarvationBound == cooldown_duration - 1 + (Len(directions) - 1)

\* C23: whatever perception yields in each pass (ambulances, clear images,
\* failures), when every countdown completes and no stop is requested no
\* approach goes more than cooldown_duration + 2 outer cycles in a row
\* without a green phase, normal or emergency; the scheduler always has a
\* next pass, so every approach is green again and again.
C23_NoStarvation ==
    /\ \A d \in Dirs : since_green[d] <= StarvationBound
    /\ ENABLED CyclesNext

C23_Witness ==
    /\ prog = "cycles"
    /\ since_green["East"] = StarvationBound
    /\ ambulance_cooldown["East"] = 0
    /\ \A d \in Dirs \ {"East"} : ambulance_cooldown[d] >= cooldown_duration - 2

====
